---- MODULE Spec2Model ----
(***************************************************************************)
(* A model of the google-photos-immich-urls mapper                         *)
(* (internal/mapper/mapper.go, internal/googlephotos, cmd main).           *)
(*                                                                         *)
(* File names, titles and timestamps are sequences of one-character        *)
(* strings, so that the string operations of the associator (TrimSuffix,   *)
(* HasSuffix, EqualFold, LastIndex, path.Ext) are computed as the code     *)
(* computes them.  A path is the pair <<directory, file name>>.            *)
(***************************************************************************)
EXTENDS Integers, Sequences, FiniteSets, TLC

----------------------------------------------------------------------------
(* Bounds of the model                                                     *)

\* The environment injects at most this many failures in one run (unreadable
\* sidecar, fingerprint failure, failed catalog query, failed tree walk,
\* failed handshake).
MaxFailures == 1

\* filterByTimestamp is checked on every list of at most this many candidates.
MaxCands == 2

\* findMediaFile is checked on every directory of a sidecar and at most this
\* many other files.
MaxSiblings == 3

----------------------------------------------------------------------------
(* strings, path                                                           *)

Upper == <<"A","B","C","D","E","F","G","H","I","J","K","L","M",
           "N","O","P","Q","R","S","T","U","V","W","X","Y","Z">>
Lower == <<"a","b","c","d","e","f","g","h","i","j","k","l","m",
           "n","o","p","q","r","s","t","u","v","w","x","y","z">>

ToLowerCh(c) ==
  IF \E i \in 1..Len(Upper) : Upper[i] = c
  THEN Lower[CHOOSE i \in 1..Len(Upper) : Upper[i] = c]
  ELSE c

\* strings.ToLower
ToLower(s) == [i \in 1..Len(s) |-> ToLowerCh(s[i])]

\* strings.HasSuffix
HasSuffix(s, suf) ==
  /\ Len(suf) <= Len(s)
  /\ SubSeq(s, Len(s) - Len(suf) + 1, Len(s)) = suf

\* strings.TrimSuffix
TrimSuffix(s, suf) ==
  IF HasSuffix(s, suf) THEN SubSeq(s, 1, Len(s) - Len(suf)) ELSE s

\* strings.EqualFold (ASCII)
EqualFold(a, b) == ToLower(a) = ToLower(b)

\* strings.LastIndex for a one-character needle, as a 0-based index; -1 if absent
LastIndex(s, c) ==
  IF \E i \in 1..Len(s) : s[i] = c
  THEN (CHOOSE i \in 1..Len(s) : s[i] = c /\ \A j \in (i+1)..Len(s) : s[j] # c) - 1
  ELSE -1

\* path.Ext: the suffix beginning at the final dot, "" if there is no dot
Ext(name) ==
  LET i == LastIndex(name, ".")
  IN  IF i < 0 THEN <<>> ELSE SubSeq(name, i + 1, Len(name))

\* the first element of the list f that satisfies P, <<>> ("") if none
RECURSIVE FirstEqual(_, _)
FirstEqual(files, target) ==
  IF files = <<>> THEN <<>>
  ELSE IF Head(files) = target THEN Head(files)
  ELSE FirstEqual(Tail(files), target)

RECURSIVE FirstEqualFold(_, _)
FirstEqualFold(files, target) ==
  IF files = <<>> THEN <<>>
  ELSE IF EqualFold(Head(files), target) THEN Head(files)
  ELSE FirstEqualFold(Tail(files), target)

DotJson == <<".","j","s","o","n">>
JPG     == <<".","j","p","g">>
BMP     == <<".","b","m","p">>

\* mediaExtensions (the set isMediaFile recognises)
mediaExtensions ==
  { <<".","j","p","g">>, <<".","j","p","e","g">>, <<".","p","n","g">>,
    <<".","g","i","f">>, <<".","h","e","i","c">>, <<".","h","e","i","f">>,
    <<".","w","e","b","p">>, <<".","b","m","p">>, <<".","t","i","f","f">>,
    <<".","m","p","4">>, <<".","m","o","v">>, <<".","a","v","i">>,
    <<".","m","k","v">>, <<".","3","g","p">>, <<".","w","e","b","m">> }

isMediaFile(filename) == ToLower(Ext(filename)) \in mediaExtensions

\* the local list mediaExts of findMediaFile
mediaExts ==
  << <<".","j","p","g">>, <<".","j","p","e","g">>, <<".","p","n","g">>,
     <<".","g","i","f">>, <<".","h","e","i","c">>, <<".","h","e","i","f">>,
     <<".","w","e","b","p">>, <<".","m","p","4">>, <<".","m","o","v">>,
     <<".","a","v","i">>, <<".","m","k","v">>, <<".","3","g","p">> >>

----------------------------------------------------------------------------
(* Sidecar Associator                                                      *)

\* rule 3: for each ext of mediaExts that ends the lower-cased base name, the
\* first file equal to the base name up to case
RECURSIVE CaseInsensitiveMatch(_, _, _)
CaseInsensitiveMatch(exts, baseName, filesInDir) ==
  IF exts = <<>> THEN <<>>
  ELSE IF HasSuffix(ToLower(baseName), Head(exts))
          /\ FirstEqualFold(filesInDir, baseName) # <<>>
       THEN FirstEqualFold(filesInDir, baseName)
       ELSE CaseInsensitiveMatch(Tail(exts), baseName, filesInDir)

\* rule 4: cut the base name at its last "(" and look for that exact name
ParenStrippedMatch(baseName, filesInDir) ==
  LET idx == LastIndex(baseName, "(")
  IN  IF idx > 0 THEN FirstEqual(filesInDir, SubSeq(baseName, 1, idx)) ELSE <<>>

\* an associator that tries the parenthesis-stripped name before all else
findMediaFileStripFirst(jsonName, title, filesInDir) ==
  LET baseName == TrimSuffix(jsonName, DotJson)
      r1 == FirstEqual(filesInDir, baseName)
      r2 == IF title # <<>> THEN FirstEqual(filesInDir, title) ELSE <<>>
      r3 == CaseInsensitiveMatch(mediaExts, baseName, filesInDir)
      r4 == ParenStrippedMatch(baseName, filesInDir)
  IN  IF r4 # <<>> THEN r4
      ELSE IF r1 # <<>> THEN r1
      ELSE IF r2 # <<>> THEN r2
      ELSE r3

\* findMediaFile: <<>> stands for the empty string (no media file)
findMediaFile(jsonName, title, filesInDir) ==
  LET baseName == TrimSuffix(jsonName, DotJson)
      r1 == FirstEqual(filesInDir, baseName)
      r2 == IF title # <<>> THEN FirstEqual(filesInDir, title) ELSE <<>>
      r3 == CaseInsensitiveMatch(mediaExts, baseName, filesInDir)
      r4 == ParenStrippedMatch(baseName, filesInDir)
  IN  IF r1 # <<>> THEN r1
      ELSE IF r2 # <<>> THEN r2
      ELSE IF r3 # <<>> THEN r3
      ELSE r4

----------------------------------------------------------------------------
(* googlephotos: sidecar metadata                                          *)

Digits == <<"0","1","2","3","4","5","6","7","8","9">>

IsDigit(c) == \E i \in 1..Len(Digits) : Digits[i] = c

DigitVal(c) == (CHOOSE i \in 1..Len(Digits) : Digits[i] = c) - 1

RECURSIVE DecimalValue(_)
DecimalValue(s) ==
  IF s = <<>> THEN 0
  ELSE 10 * DecimalValue(SubSeq(s, 1, Len(s) - 1)) + DigitVal(s[Len(s)])

\* strconv.ParseInt(s, 10, 64) with its error dropped: 0 on a syntax error
ParseInt(s) ==
  LET signed == s # <<>> /\ s[1] \in {"+", "-"}
      body   == IF signed THEN Tail(s) ELSE s
  IN  IF body = <<>> \/ \E i \in 1..Len(body) : ~IsDigit(body[i]) THEN 0
      ELSE IF signed /\ s[1] = "-" THEN 0 - DecimalValue(body)
      ELSE DecimalValue(body)

\* time.Time{}: the zero instant, which lies before every timestamp of the model
ZeroTime == -1000

IsZero(t) == t = ZeroTime

\* GoogTimeObject.Time: epoch seconds as an instant, the zero instant for 0
GoogTime(gt) ==
  IF ~gt.present THEN ZeroTime
  ELSE LET ts == ParseInt(gt.Timestamp)
       IN  IF ts = 0 THEN ZeroTime ELSE ts

\* GoogleMetaData.IsAsset
IsAsset(md) == md.PhotoTakenTime.present /\ md.PhotoTakenTime.Timestamp # <<>>

\* GoogleMetaData.HasURL
HasURL(md) == md.URL # ""

----------------------------------------------------------------------------
(* Timestamp disambiguation                                                *)

\* const tolerance = 2 * time.Second (instants are in seconds)
tolerance == 2

\* the time field filterByTimestamp reads for an asset
AssetTime(a) ==
  IF ~IsZero(a.LocalDateTime) THEN a.LocalDateTime
  ELSE IF ~IsZero(a.FileCreatedAt) THEN a.FileCreatedAt
  ELSE IF ~IsZero(a.DateTimeOriginal) THEN a.DateTimeOriginal
  ELSE ZeroTime

\* the loop of filterByTimestamp: the assets within tolerance, in order
RECURSIVE MatchesWithinTolerance(_, _)
MatchesWithinTolerance(assets, targetTime) ==
  IF assets = <<>> THEN <<>>
  ELSE LET a         == Head(assets)
           assetTime == AssetTime(a)
           d         == assetTime - targetTime
           diff      == IF d < 0 THEN 0 - d ELSE d
           rest      == MatchesWithinTolerance(Tail(assets), targetTime)
       IN  IF IsZero(assetTime) THEN rest
           ELSE IF diff <= tolerance THEN <<a>> \o rest
           ELSE rest

\* a filter that hands back all candidates when none is within tolerance
filterByTimestampOrAll(assets, targetTime) ==
  LET matches == MatchesWithinTolerance(assets, targetTime)
  IN  IF Len(matches) > 0 THEN matches ELSE assets

filterByTimestamp(assets, targetTime) ==
  LET matches == MatchesWithinTolerance(assets, targetTime)
  IN  IF Len(matches) > 0 THEN matches ELSE <<>>

----------------------------------------------------------------------------
(* The source trees and the remote catalog the runs are checked on         *)

Name(stem, ext) == stem \o ext

Media(dir, name, content) ==
  [dir |-> dir, name |-> name, isDir |-> FALSE, content |-> content,
   valid |-> FALSE,
   md |-> [Title |-> <<>>, PhotoTakenTime |-> [present |-> FALSE, Timestamp |-> <<>>],
           URL |-> ""]]

\* a .json file that parses as metadata
Sidecar(dir, name, title, hasTime, timestamp, url) ==
  [dir |-> dir, name |-> name, isDir |-> FALSE, content |-> "",
   valid |-> TRUE,
   md |-> [Title |-> title,
           PhotoTakenTime |-> [present |-> hasTime, Timestamp |-> timestamp],
           URL |-> url]]

\* a .json file that is not valid JSON
BadJson(dir, name) ==
  [Media(dir, name, "") EXCEPT !.valid = FALSE]

Directory(dir) ==
  [Media(dir, <<>>, "") EXCEPT !.isDir = TRUE]

T10 == <<"1","0">>
T20 == <<"2","0">>

\* Entries are listed in the lexical order fs.WalkDir visits them in.
Tree1 ==
  << Directory("."),
     Directory("Photos"),
     Media  ("Photos", Name(<<"a">>, JPG), "c1"),
     Sidecar("Photos", Name(<<"a">>, JPG) \o <<"(","1",")">> \o DotJson,
             Name(<<"a">>, JPG), TRUE, T10, "u2"),
     Sidecar("Photos", Name(<<"a">>, JPG) \o DotJson,
             Name(<<"a">>, JPG), TRUE, T10, "u1"),
     Media  ("Photos", Name(<<"b">>, JPG), "c2"),
     Media  ("Photos", Name(<<"c">>, JPG), "c3"),
     Sidecar("Photos", Name(<<"c">>, JPG) \o DotJson,
             Name(<<"c">>, JPG), TRUE, T10, ""),
     Sidecar("Photos", Name(<<"e">>, JPG) \o DotJson,
             Name(<<"e">>, JPG), TRUE, T10, "u5"),
     Sidecar("Photos", <<"m">> \o DotJson, <<"m">>, FALSE, <<>>, ""),
     BadJson("Photos", <<"n">> \o DotJson) >>

Tree2 ==
  << Directory("."),
     Directory("Photos"),
     Media  ("Photos", <<"F",".","B","M","P">>, "c6"),
     Media  ("Photos", <<"G",".","J","P","G">>, "c7"),
     Media  ("Photos", Name(<<"a">>, JPG), "c1"),
     Sidecar("Photos", Name(<<"f">>, BMP) \o DotJson,
             Name(<<"f">>, BMP), TRUE, T10, "u6"),
     Sidecar("Photos", Name(<<"g">>, JPG) \o DotJson,
             Name(<<"g">>, JPG), TRUE, T20, "u7"),
     Media  ("Photos", Name(<<"p","(","1",")">>, JPG), "c8"),
     Sidecar("Photos", Name(<<"p","(","1",")">>, JPG) \o DotJson,
             Name(<<"p">>, JPG), TRUE, T10, "u8"),
     Media  ("Photos", Name(<<"p">>, JPG), "c9"),
     Media  ("Photos", Name(<<"q">>, JPG), "c10"),
     Sidecar("Photos", Name(<<"q">>, JPG) \o DotJson,
             Name(<<"q">>, JPG), TRUE, <<"0">>, "u10"),
     Media  ("Photos", Name(<<"r">>, JPG), "c11"),
     Sidecar("Photos", Name(<<"r">>, JPG) \o DotJson,
             Name(<<"r">>, JPG), TRUE, T10, "u11") >>

\* m.fsyss
Trees == <<Tree1, Tree2>>

Asset(id, checksum, name, local, created, exif) ==
  [ID |-> id, Checksum |-> checksum, OriginalFileName |-> name,
   LocalDateTime |-> local, FileCreatedAt |-> created, DateTimeOriginal |-> exif]

\* The catalog behind /api/search/metadata, one list per visibility.
Catalog ==
  [timeline |->
     << Asset("i2", "hx", Name(<<"a">>, JPG), 15, 10, ZeroTime),
        Asset("i1", "h1", Name(<<"a">>, JPG), ZeroTime, 11, 30),
        Asset("i8", "h8", Name(<<"p","(","1",")">>, JPG), 10, ZeroTime, ZeroTime),
        Asset("i9", "h8", Name(<<"p","(","1",")">>, JPG), 10, ZeroTime, ZeroTime),
        Asset("i4", "hy", Name(<<"q">>, JPG), 50, ZeroTime, ZeroTime),
        Asset("i5", "hz", Name(<<"q">>, JPG), 60, ZeroTime, ZeroTime),
        Asset("i6", "hv", Name(<<"r">>, JPG), ZeroTime, ZeroTime, 15),
        Asset("i7", "hw", Name(<<"r">>, JPG), 5, ZeroTime, ZeroTime) >>,
   archive |->
     << Asset("i3", "hu", <<"g">>, 99, ZeroTime, ZeroTime),
        Asset("i10", "h2", Name(<<"b","2">>, JPG), 10, ZeroTime, ZeroTime) >>]

\* the SHA1 digest of a file's content, base64-encoded
Digest ==
  [c \in {"c1","c2","c3","c6","c7","c8","c9","c10","c11"} |->
     CASE c = "c1" -> "h1" [] c = "c2" -> "h2" [] c = "c3" -> "h3"
       [] c = "c6" -> "h6" [] c = "c7" -> "h7" [] c = "c8" -> "h8"
       [] c = "c9" -> "h9" [] c = "c10" -> "h10" [] c = "c11" -> "h11"]

----------------------------------------------------------------------------
(* Catalog Resolver                                                        *)

\* which query of a lookup the environment makes fail
FailPat == {"none", "timeline", "archive"}

QueryMatches(a, query) ==
  IF query.field = "checksum" THEN a.Checksum = query.value
  ELSE a.OriginalFileName = query.value

\* searchWithVisibility: one POST /api/search/metadata.  The request fails when
\* its context is done or the transport or the server fails.
searchWithVisibility(query, visibility, failed, ctxDone) ==
  IF ctxDone \/ failed THEN [err |-> TRUE, assets |-> <<>>]
  ELSE [err |-> FALSE,
        assets |-> SelectSeq(Catalog[visibility], LAMBDA a : QueryMatches(a, query))]

\* one query a lookup issued, with the response it got
Issued(query, visibility, ctxDone, resp) ==
  [field |-> query.field, value |-> query.value, visibility |-> visibility,
   ctxDone |-> ctxDone, err |-> resp.err, assets |-> resp.assets]

\* a lookup that queries the archive whatever the timeline query gave
TwoScopesBothAlways(query, fail, ctxDone) ==
  LET t  == searchWithVisibility(query, "timeline", fail = "timeline", ctxDone)
      a  == searchWithVisibility(query, "archive", fail = "archive", ctxDone)
      qt == Issued(query, "timeline", ctxDone, t)
      qa == Issued(query, "archive", ctxDone, a)
  IN  IF t.err
      THEN [called |-> TRUE, err |-> TRUE, assets |-> <<>>, queries |-> <<qt>>]
      ELSE IF a.err
      THEN [called |-> TRUE, err |-> TRUE, assets |-> <<>>, queries |-> <<qt, qa>>]
      ELSE [called |-> TRUE, err |-> FALSE,
            assets |-> IF Len(t.assets) > 0 THEN t.assets ELSE a.assets,
            queries |-> <<qt, qa>>]

\* searchAssetsByHash / searchAssetsByFilename: the timeline first, the archive
\* when the timeline query succeeded without a result
TwoScopes(query, fail, ctxDone) ==
  LET t  == searchWithVisibility(query, "timeline", fail = "timeline", ctxDone)
      a  == searchWithVisibility(query, "archive", fail = "archive", ctxDone)
      qt == Issued(query, "timeline", ctxDone, t)
      qa == Issued(query, "archive", ctxDone, a)
  IN  IF t.err
      THEN [called |-> TRUE, err |-> TRUE, assets |-> <<>>, queries |-> <<qt>>]
      ELSE IF Len(t.assets) > 0
      THEN [called |-> TRUE, err |-> FALSE, assets |-> t.assets, queries |-> <<qt>>]
      ELSE IF a.err
      THEN [called |-> TRUE, err |-> TRUE, assets |-> <<>>, queries |-> <<qt, qa>>]
      ELSE [called |-> TRUE, err |-> FALSE, assets |-> a.assets, queries |-> <<qt, qa>>]

searchAssetsByHash(hash, fail, ctxDone) ==
  TwoScopes([field |-> "checksum", value |-> hash], fail, ctxDone)

searchAssetsByFilename(filename, fail, ctxDone) ==
  TwoScopes([field |-> "originalFileName", value |-> filename], fail, ctxDone)

NoLookup == [called |-> FALSE, err |-> FALSE, assets |-> <<>>, queries |-> <<>>]

\* The environment of one sidecar's resolution: the query each lookup fails at,
\* and the lookup (1 digest, 2 title, 3 base name) before which the cancellation
\* signal arrives (0: it does not arrive during this sidecar).
Envs == [fH : FailPat, fN : FailPat, fB : FailPat, cancelAt : 0..3]

CtxDoneAt(env, k) == env.cancelAt # 0 /\ env.cancelAt <= k

\* processFS: the resolution of one sidecar, digest first, then by name
Resolve(md, mediaFile, hash, fallback, env) ==
  LET byHash        == searchAssetsByHash(hash, env.fH, CtxDoneAt(env, 1))
      matchedByHash == Len(byHash.assets) > 0
      searchName    == IF md.Title = <<>> THEN mediaFile ELSE md.Title
      baseName      == TrimSuffix(searchName, Ext(searchName))
      tryName       == Len(byHash.assets) = 0 /\ fallback
      byName        == IF tryName
                       THEN searchAssetsByFilename(searchName, env.fN, CtxDoneAt(env, 2))
                       ELSE NoLookup
      tryBase       == tryName /\ Len(byName.assets) = 0 /\ baseName # searchName
      byBase        == IF tryBase
                       THEN searchAssetsByFilename(baseName, env.fB, CtxDoneAt(env, 3))
                       ELSE NoLookup
      named         == IF tryBase THEN byBase.assets ELSE byName.assets
      googleTime    == GoogTime(md.PhotoTakenTime)
      filtered      == IF Len(named) > 1 /\ md.PhotoTakenTime.present /\ ~IsZero(googleTime)
                       THEN filterByTimestamp(named, googleTime)
                       ELSE named
  IN  [foundAssets   |-> IF tryName THEN filtered ELSE byHash.assets,
       matchedByHash |-> matchedByHash,
       lookups       |-> <<byHash, byName, byBase>>]

\* the failures the environment caused in a resolution (not those of a done context)
Observed(res, env) ==
  Cardinality({k \in 1..3 : res.lookups[k].err /\ ~CtxDoneAt(env, k)})

\* env names exactly what happened: a failure pattern is set only for a query
\* that was issued and failed by it, and the signal arrives before a lookup made
Canonical(res, env) ==
  LET pat == <<env.fH, env.fN, env.fB>>
  IN  /\ \A k \in 1..3 :
           pat[k] # "none" =>
             /\ res.lookups[k].called /\ ~CtxDoneAt(env, k)
             /\ res.lookups[k].err
             /\ res.lookups[k].queries[Len(res.lookups[k].queries)].visibility = pat[k]
      /\ env.cancelAt # 0 => res.lookups[env.cancelAt].called

----------------------------------------------------------------------------
(* Correlation Driver                                                      *)

VARIABLES
  dryRun,            \* m.dryRun
  fallbackFilename,  \* m.fallbackFilename
  pc,                \* where Run is: "start", "fs", "walk", "orphans", "done"
  fsIdx,             \* the index in m.fsyss of the tree being processed
  pos,               \* the entry the second WalkDir visits next
  dirFiles,          \* directory -> the file names in it
  allMediaFiles,     \* the media paths of the tree
  claimedMedia,      \* the media paths claimed by a sidecar
  todo,              \* the media paths the orphan loop has not visited yet
  result,            \* *Result, shared by all trees
  cancelled,         \* ctx.Done() is closed
  returned,          \* what Run returned
  pinged,            \* the handshake (PingServer) was attempted
  failures,          \* failures injected so far
  treeStart,         \* the lengths of the result lists when the tree began
  last,              \* what the last step did (for stating the claims)
  filterIn,          \* the arguments of a call of filterByTimestamp
  filterOut          \* what that call returned

vars == <<dryRun, fallbackFilename, pc, fsIdx, pos, dirFiles, allMediaFiles,
          claimedMedia, todo, result, cancelled, returned, pinged, failures,
          treeStart, last, filterIn, filterOut>>

serverURL == "https://immich"

\* fmt.Sprintf("%s/photos/%s", m.serverURL, id)
ImmichURL(id) == <<serverURL, "/photos/", id>>

ZeroStats ==
  [TotalJSONFiles |-> 0, TotalGoogleURLs |-> 0, Matched |-> 0, MatchedByHash |-> 0,
   MatchedByFilename |-> 0, NotFoundInImmich |-> 0, NoMediaFile |-> 0,
   HashErrors |-> 0, OrphanMedia |-> 0]

EmptyResult ==
  [Mappings |-> <<>>, NotFound |-> <<>>, OrphanMedia |-> <<>>, Stats |-> ZeroStats]

Bump(r, counter) == [r EXCEPT !.Stats[counter] = @ + 1]

IsJson(e) == HasSuffix(ToLower(e.name), DotJson)

Files(tree) == SelectSeq(tree, LAMBDA e : ~e.isDir)

RECURSIVE NamesIn(_, _)
NamesIn(files, dir) ==
  IF files = <<>> THEN <<>>
  ELSE IF Head(files).dir = dir THEN <<Head(files).name>> \o NamesIn(Tail(files), dir)
  ELSE NamesIn(Tail(files), dir)

\* the first WalkDir of processFS
DirFiles(tree) ==
  [d \in {tree[i].dir : i \in {j \in 1..Len(tree) : ~tree[j].isDir}} |->
     NamesIn(Files(tree), d)]

AllMediaFiles(tree) ==
  {<<tree[i].dir, tree[i].name>> :
     i \in {j \in 1..Len(tree) : ~tree[j].isDir /\ isMediaFile(tree[j].name)}}

\* computeHash, when the file can be read
computeHash(tree, mediaPath) ==
  LET i == CHOOSE j \in 1..Len(tree) :
             ~tree[j].isDir /\ <<tree[j].dir, tree[j].name>> = mediaPath
  IN  Digest[tree[i].content]

NoLast ==
  [kind |-> "none", fs |-> 0, fpath |-> <<"", <<>>>>, mediaPath |-> <<"", <<>>>>,
   hash |-> "", outcome |-> "", foundAssets |-> <<>>,
   lookups |-> <<NoLookup, NoLookup, NoLookup>>, cancelAt |-> 0,
   afterCancel |-> FALSE,
   md |-> Media("", <<>>, "").md]

Init ==
  /\ dryRun \in BOOLEAN
  /\ fallbackFilename \in BOOLEAN
  /\ pc = "start"
  /\ fsIdx = 1
  /\ pos = 1
  /\ dirFiles = <<>>
  /\ allMediaFiles = {}
  /\ claimedMedia = {}
  /\ todo = {}
  /\ result = EmptyResult
  /\ cancelled = FALSE
  /\ returned = [isNil |-> TRUE, result |-> EmptyResult, err |-> ""]
  /\ pinged = FALSE
  /\ failures = 0
  /\ treeStart = [Mappings |-> 0, NotFound |-> 0, OrphanMedia |-> 0]
  /\ last = NoLast
  /\ filterIn = [assets |-> <<>>, targetTime |-> 0]
  /\ filterOut = [returned |-> FALSE, assets |-> <<>>]

\* main.run: the signal handler cancels the context
Cancel ==
  /\ pc # "done"
  /\ ~cancelled
  /\ cancelled' = TRUE
  /\ UNCHANGED <<filterIn, filterOut, dryRun, fallbackFilename, pc, fsIdx, pos, dirFiles, allMediaFiles,
                 claimedMedia, todo, result, returned, pinged, failures, treeStart,
                 last>>

\* a Run that hands back the partial result together with the error
AbortWithResult(err) ==
  /\ pc' = "done"
  /\ returned' = [isNil |-> FALSE, result |-> result, err |-> err]
  /\ last' = NoLast

\* Run returns nil and an error
Abort(err) ==
  /\ pc' = "done"
  /\ returned' = [isNil |-> TRUE, result |-> EmptyResult, err |-> err]
  /\ last' = NoLast

\* a Run that makes the handshake in dry-run mode too
StartHandshakeAlways ==
  /\ pc = "start"
  /\ pinged' = TRUE
  /\ \E ok \in BOOLEAN :
       IF ok /\ ~cancelled
       THEN pc' = "fs" /\ UNCHANGED <<returned, failures, last>>
       ELSE /\ cancelled \/ failures < MaxFailures
            /\ failures' = IF cancelled THEN failures ELSE failures + 1
            /\ Abort("failed to connect to Immich server")
  /\ UNCHANGED <<filterIn, filterOut, dryRun, fallbackFilename, fsIdx, pos, dirFiles, allMediaFiles,
                 claimedMedia, todo, result, cancelled, treeStart>>

\* Run, up to the loop over m.fsyss: the handshake, unless dry-run
Start ==
  /\ pc = "start"
  /\ IF dryRun
     THEN /\ pc' = "fs"
          /\ UNCHANGED <<returned, pinged, failures, last>>
     ELSE /\ pinged' = TRUE
          /\ \E ok \in BOOLEAN :
               IF ok /\ ~cancelled
               THEN pc' = "fs" /\ UNCHANGED <<returned, failures, last>>
               ELSE /\ cancelled \/ failures < MaxFailures
                    /\ failures' = IF cancelled THEN failures ELSE failures + 1
                    /\ Abort("failed to connect to Immich server")
  /\ UNCHANGED <<filterIn, filterOut, dryRun, fallbackFilename, fsIdx, pos, dirFiles, allMediaFiles,
                 claimedMedia, todo, result, cancelled, treeStart>>

\* processFS, up to the second WalkDir: the index of the tree
BeginFS ==
  /\ pc = "fs"
  /\ \E ok \in BOOLEAN :
       IF ok
       THEN /\ dirFiles' = DirFiles(Trees[fsIdx])
            /\ allMediaFiles' = AllMediaFiles(Trees[fsIdx])
            /\ claimedMedia' = {}
            /\ todo' = {}
            /\ pos' = 1
            /\ pc' = "walk"
            /\ treeStart' = [Mappings |-> Len(result.Mappings),
                             NotFound |-> Len(result.NotFound),
                             OrphanMedia |-> Len(result.OrphanMedia)]
            /\ last' = NoLast
            /\ UNCHANGED <<returned, failures>>
       ELSE /\ failures < MaxFailures
            /\ failures' = failures + 1
            /\ Abort("failed to walk filesystem")
            /\ UNCHANGED <<dirFiles, allMediaFiles, claimedMedia, todo, pos, treeStart>>
  /\ UNCHANGED <<filterIn, filterOut, dryRun, fallbackFilename, fsIdx, result, cancelled, pinged>>

\* a classification that builds the Mapping from the last candidate
ClassifyLastCandidate(r, md, fpath, mediaPath, hash, foundAssets, matchedByHash) ==
  IF Len(foundAssets) = 0
  THEN [Bump(r, "NotFoundInImmich") EXCEPT
          !.NotFound = Append(@, [GoogleURL |-> md.URL, JSONFile |-> fpath,
                                  Path |-> mediaPath, Hash |-> hash])]
  ELSE LET matchMethod == IF matchedByHash THEN "hash" ELSE "filename+timestamp"
           counted     == IF matchedByHash THEN Bump(r, "MatchedByHash")
                          ELSE Bump(r, "MatchedByFilename")
       IN  [Bump(counted, "Matched") EXCEPT
              !.Mappings = Append(@, [GoogleURL |-> md.URL,
                                      ImmichURL |-> ImmichURL(foundAssets[Len(foundAssets)].ID),
                                      JSONFile |-> fpath, Path |-> mediaPath,
                                      Hash |-> hash, MatchMethod |-> matchMethod])]

\* a classification that does not count a match by name in matched
ClassifyNameMatchUncounted(r, md, fpath, mediaPath, hash, foundAssets, matchedByHash) ==
  IF Len(foundAssets) = 0
  THEN [Bump(r, "NotFoundInImmich") EXCEPT
          !.NotFound = Append(@, [GoogleURL |-> md.URL, JSONFile |-> fpath,
                                  Path |-> mediaPath, Hash |-> hash])]
  ELSE LET matchMethod == IF matchedByHash THEN "hash" ELSE "filename+timestamp"
           counted     == IF matchedByHash THEN Bump(Bump(r, "MatchedByHash"), "Matched")
                          ELSE Bump(r, "MatchedByFilename")
       IN  [counted EXCEPT
              !.Mappings = Append(@, [GoogleURL |-> md.URL,
                                      ImmichURL |-> ImmichURL(foundAssets[1].ID),
                                      JSONFile |-> fpath, Path |-> mediaPath,
                                      Hash |-> hash, MatchMethod |-> matchMethod])]

\* processFS: the classification of a sidecar whose media file was fingerprinted
Classify(r, md, fpath, mediaPath, hash, foundAssets, matchedByHash) ==
  IF Len(foundAssets) = 0
  THEN [Bump(r, "NotFoundInImmich") EXCEPT
          !.NotFound = Append(@, [GoogleURL |-> md.URL, JSONFile |-> fpath,
                                  Path |-> mediaPath, Hash |-> hash])]
  ELSE LET matchMethod == IF matchedByHash THEN "hash" ELSE "filename+timestamp"
           counted     == IF matchedByHash THEN Bump(r, "MatchedByHash")
                          ELSE Bump(r, "MatchedByFilename")
       IN  [Bump(counted, "Matched") EXCEPT
              !.Mappings = Append(@, [GoogleURL |-> md.URL,
                                      ImmichURL |-> ImmichURL(foundAssets[1].ID),
                                      JSONFile |-> fpath, Path |-> mediaPath,
                                      Hash |-> hash, MatchMethod |-> matchMethod])]

\* the end of one callback of the second WalkDir that returned nil
Visited(newResult, newClaimed, newFailures, newCancelled, newLast) ==
  /\ result' = newResult
  /\ claimedMedia' = newClaimed
  /\ failures' = newFailures
  /\ cancelled' = newCancelled
  /\ last' = newLast
  /\ pos' = pos + 1
  /\ UNCHANGED <<pc, returned>>

SidecarLast(e, outcome) ==
  [NoLast EXCEPT !.kind = "sidecar", !.fs = fsIdx, !.fpath = <<e.dir, e.name>>,
                 !.md = e.md, !.outcome = outcome]

\* a hash error that is logged but not counted
HashFailedUncounted(r, claimed, lst) ==
  /\ failures < MaxFailures
  /\ Visited(r, claimed, failures + 1, cancelled, [lst EXCEPT !.outcome = "HashError"])

\* a hash error that is returned from the callback and ends the walk
HashFailedAborts(r, claimed, lst) ==
  /\ failures < MaxFailures
  /\ failures' = failures + 1
  /\ pc' = "done"
  /\ returned' = [isNil |-> TRUE, result |-> EmptyResult, err |-> "hash error"]
  /\ last' = [lst EXCEPT !.outcome = "HashError"]
  /\ UNCHANGED <<result, claimedMedia, cancelled, pos>>

\* computeHash failed: the sidecar is counted as a hash error and the walk goes on
HashFailed(r, claimed, lst) ==
  /\ failures < MaxFailures
  /\ Visited(Bump(r, "HashErrors"), claimed, failures + 1, cancelled,
             [lst EXCEPT !.outcome = "HashError"])

\* a resolution that falls back to the name whatever m.fallbackFilename says
ResolveSidecarAlwaysFallback(md, mediaFile, hash, env) ==
  Resolve(md, mediaFile, hash, TRUE, env)

\* a resolution that gives up on the sidecar when the digest lookup fails
ResolveSidecarStopOnError(md, mediaFile, hash, env) ==
  LET res == Resolve(md, mediaFile, hash, fallbackFilename, env)
  IN  IF res.lookups[1].err
      THEN [res EXCEPT !.foundAssets = <<>>, !.lookups[2] = NoLookup,
                       !.lookups[3] = NoLookup]
      ELSE res

\* the resolution of a sidecar under the mapper's configuration
ResolveSidecar(md, mediaFile, hash, env) ==
  Resolve(md, mediaFile, hash, fallbackFilename, env)

\* the part of the callback that runs once the sidecar has a media file
Correlate(e, r, mediaFile) ==
  LET mediaPath == <<e.dir, mediaFile>>
      claimed   == claimedMedia \cup {mediaPath}
      hash      == computeHash(Trees[fsIdx], mediaPath)
      lst       == [SidecarLast(e, "") EXCEPT !.mediaPath = mediaPath]
  IN  \E hashOK \in BOOLEAN :
        IF ~hashOK
        THEN HashFailed(r, claimed, lst)
        ELSE IF dryRun
        THEN Visited(r, claimed, failures, cancelled,
                     [lst EXCEPT !.outcome = "DryRun", !.hash = hash])
        ELSE \E env \in Envs :
               LET res == ResolveSidecar(e.md, mediaFile, hash, env)
                   new == Classify(r, e.md, <<e.dir, e.name>>, mediaPath, hash,
                                   res.foundAssets, res.matchedByHash)
               IN  /\ Canonical(res, env)
                   /\ failures + Observed(res, env) <= MaxFailures
                   /\ Visited(new, claimed, failures + Observed(res, env),
                              env.cancelAt # 0,
                              [lst EXCEPT
                                 !.outcome = IF Len(res.foundAssets) = 0
                                             THEN "NotFound" ELSE "Matched",
                                 !.hash = hash, !.foundAssets = res.foundAssets,
                                 !.lookups = res.lookups, !.cancelAt = env.cancelAt,
                                 !.afterCancel = env.cancelAt # 0])

\* an association in which the first sidecar to claim a media file wins
MediaForFirstWins(e) ==
  LET mediaFile == findMediaFile(e.name, e.md.Title, dirFiles[e.dir])
  IN  IF <<e.dir, mediaFile>> \in claimedMedia THEN <<>> ELSE mediaFile

\* the media file the associator finds for a sidecar among its siblings
MediaFor(e) == findMediaFile(e.name, e.md.Title, dirFiles[e.dir])

\* the callback of the second WalkDir for a .json file
VisitSidecar(e) ==
  LET counted == Bump(result, "TotalJSONFiles")
  IN  \E readOK \in BOOLEAN :
        IF ~readOK
        THEN /\ failures < MaxFailures
             /\ Visited(counted, claimedMedia, failures + 1, cancelled,
                        SidecarLast(e, "Unreadable"))
        ELSE IF ~e.valid \/ ~IsAsset(e.md) \/ ~HasURL(e.md)
        THEN Visited(counted, claimedMedia, failures, cancelled,
                     SidecarLast(e, "Skipped"))
        ELSE LET withURL   == Bump(counted, "TotalGoogleURLs")
                 mediaFile == MediaFor(e)
             IN  IF mediaFile = <<>>
                 THEN Visited(Bump(withURL, "NoMediaFile"), claimedMedia, failures,
                              cancelled, SidecarLast(e, "NoMediaFile"))
                 ELSE Correlate(e, withURL, mediaFile)

\* one callback of the second WalkDir of processFS
VisitEntry ==
  /\ pc = "walk"
  /\ pos <= Len(Trees[fsIdx])
  /\ LET e == Trees[fsIdx][pos]
     IN  IF cancelled
         THEN /\ Abort("context canceled")
              /\ UNCHANGED <<result, claimedMedia, failures, cancelled, pos>>
         ELSE IF e.isDir
         THEN \E ok \in BOOLEAN :
                IF ok
                THEN Visited(result, claimedMedia, failures, cancelled, NoLast)
                ELSE /\ failures < MaxFailures
                     /\ failures' = failures + 1
                     /\ Abort("walk error")
                     /\ UNCHANGED <<result, claimedMedia, cancelled, pos>>
         ELSE IF ~IsJson(e)
         THEN Visited(result, claimedMedia, failures, cancelled, NoLast)
         ELSE VisitSidecar(e)
  /\ UNCHANGED <<filterIn, filterOut, dryRun, fallbackFilename, fsIdx, dirFiles, allMediaFiles, todo,
                 pinged, treeStart>>

\* the second WalkDir returned nil: the orphan loop begins
WalkDone ==
  /\ pc = "walk"
  /\ pos > Len(Trees[fsIdx])
  /\ pc' = "orphans"
  /\ todo' = allMediaFiles
  /\ last' = NoLast
  /\ UNCHANGED <<filterIn, filterOut, dryRun, fallbackFilename, fsIdx, pos, dirFiles, allMediaFiles,
                 claimedMedia, result, cancelled, returned, pinged, failures,
                 treeStart>>

\* an orphan loop that does not look at the claimed set
UnclaimedAll(media, claimed) == media

\* the media paths the orphan loop reports: those no sidecar claimed
Unclaimed(media, claimed) == media \ claimed

NoOrphan(mediaPath) ==
  [Path |-> mediaPath, Hash |-> "", ImmichURL |-> <<>>, ImmichFilename |-> <<>>]

\* one iteration of the orphan loop that finds an unclaimed media file; the map
\* is ranged over in any order
OrphanStep ==
  /\ pc = "orphans"
  /\ \E mediaPath \in Unclaimed(todo, claimedMedia) :
       LET counted == Bump(result, "OrphanMedia")
           hash    == computeHash(Trees[fsIdx], mediaPath)
           lst     == [NoLast EXCEPT !.kind = "orphan", !.fs = fsIdx,
                                     !.mediaPath = mediaPath,
                                     !.afterCancel = cancelled]
       IN  /\ todo' = todo \ {mediaPath}
           /\ IF dryRun
              THEN /\ result' = [counted EXCEPT
                                   !.OrphanMedia = Append(@, NoOrphan(mediaPath))]
                   /\ last' = lst
                   /\ UNCHANGED failures
              ELSE \E hashOK \in BOOLEAN :
                     IF ~hashOK
                     THEN /\ failures < MaxFailures
                          /\ failures' = failures + 1
                          /\ result' = [counted EXCEPT
                                          !.OrphanMedia = Append(@, NoOrphan(mediaPath))]
                          /\ last' = lst
                     ELSE \E fail \in FailPat :
                            LET found == searchAssetsByHash(hash, fail, cancelled)
                                hit   == ~found.err /\ Len(found.assets) > 0
                                seen  == fail # "none"
                                orphan ==
                                  IF hit
                                  THEN [Path |-> mediaPath, Hash |-> hash,
                                        ImmichURL |-> ImmichURL(found.assets[1].ID),
                                        ImmichFilename |-> found.assets[1].OriginalFileName]
                                  ELSE [NoOrphan(mediaPath) EXCEPT !.Hash = hash]
                            IN  /\ seen => /\ ~cancelled
                                           /\ found.err
                                           /\ found.queries[Len(found.queries)].visibility = fail
                                           /\ failures < MaxFailures
                                /\ failures' = IF seen THEN failures + 1 ELSE failures
                                /\ result' = [counted EXCEPT
                                                !.OrphanMedia = Append(@, orphan)]
                                /\ last' = [lst EXCEPT !.hash = hash,
                                                       !.foundAssets = found.assets,
                                                       !.lookups[1] = found]
  /\ UNCHANGED <<filterIn, filterOut, dryRun, fallbackFilename, pc, fsIdx, pos, dirFiles, allMediaFiles,
                 claimedMedia, cancelled, returned, pinged, treeStart>>

\* processFS returns nil: Run goes on to the next tree, or returns the result
EndFS ==
  /\ pc = "orphans"
  /\ Unclaimed(todo, claimedMedia) = {}
  /\ IF fsIdx < Len(Trees)
     THEN /\ fsIdx' = fsIdx + 1
          /\ pc' = "fs"
          /\ last' = NoLast
          /\ UNCHANGED returned
     ELSE /\ pc' = "done"
          /\ returned' = [isNil |-> FALSE, result |-> result, err |-> ""]
          /\ UNCHANGED <<fsIdx, last>>
  /\ UNCHANGED <<filterIn, filterOut, dryRun, fallbackFilename, pos, dirFiles, allMediaFiles, claimedMedia,
                 todo, result, cancelled, pinged, failures, treeStart>>

Next ==
  \/ Start
  \/ BeginFS
  \/ VisitEntry
  \/ WalkDone
  \/ OrphanStep
  \/ EndFS
  \/ Cancel

Spec == Init /\ [][Next]_vars

----------------------------------------------------------------------------
(* filterByTimestamp on its own: every candidate list over AssetPool        *)

P1sOff   == Asset("p1", "k1", <<"x">>, 11, ZeroTime, ZeroTime)
P5sOff   == Asset("p2", "k2", <<"x">>, 15, ZeroTime, ZeroTime)
PCreated == Asset("p3", "k3", <<"x">>, ZeroTime, 12, 30)
PLocalFar == Asset("p4", "k4", <<"x">>, 15, 10, 10)
PNoTime  == Asset("p5", "k5", <<"x">>, ZeroTime, ZeroTime, ZeroTime)
PExif    == Asset("p6", "k6", <<"x">>, ZeroTime, ZeroTime, 8)
P3sOff   == Asset("p7", "k7", <<"x">>, 13, ZeroTime, ZeroTime)
PCreatedFar == Asset("p8", "k8", <<"x">>, ZeroTime, 7, 10)

AssetPool ==
  {P1sOff, P5sOff, PCreated, PLocalFar, PNoTime, PExif, P3sOff, PCreatedFar}

RefTimes == {10, 12}

SeqsUpTo(S, n) == UNION {[1..k -> S] : k \in 0..n}

InitFilter ==
  /\ dryRun = FALSE
  /\ fallbackFilename = TRUE
  /\ pc = "filter"
  /\ fsIdx = 1
  /\ pos = 1
  /\ dirFiles = <<>>
  /\ allMediaFiles = {}
  /\ claimedMedia = {}
  /\ todo = {}
  /\ result = EmptyResult
  /\ cancelled = FALSE
  /\ returned = [isNil |-> TRUE, result |-> EmptyResult, err |-> ""]
  /\ pinged = FALSE
  /\ failures = 0
  /\ treeStart = [Mappings |-> 0, NotFound |-> 0, OrphanMedia |-> 0]
  /\ last = NoLast
  /\ filterIn \in [assets : SeqsUpTo(AssetPool, MaxCands), targetTime : RefTimes]
  /\ filterOut = [returned |-> FALSE, assets |-> <<>>]

CallFilter ==
  /\ pc = "filter"
  /\ ~filterOut.returned
  /\ filterOut' = [returned |-> TRUE,
                   assets |-> filterByTimestamp(filterIn.assets, filterIn.targetTime)]
  /\ UNCHANGED <<filterIn, dryRun, fallbackFilename, pc, fsIdx, pos, dirFiles,
                 allMediaFiles, claimedMedia, todo, result, cancelled, returned,
                 pinged, failures, treeStart, last>>

SpecFilter == InitFilter /\ [][CallFilter]_vars

----------------------------------------------------------------------------
(* findMediaFile on its own: a sidecar, its title and its directory         *)

\* the file names of a directory, for a media extension
AssocNames(ext) ==
  [numbered      |-> <<"p","(","1",")">> \o ext,
   plain         |-> <<"p">> \o ext,
   numberedUpper |-> <<"P","(","1",")">> \o ext,
   stem          |-> <<"p">>]

AssocPool(ext) ==
  {AssocNames(ext).numbered, AssocNames(ext).plain, AssocNames(ext).numberedUpper,
   AssocNames(ext).stem}

\* photo(1).ext.json and photo.ext(1).json
AssocSidecars(ext) ==
  {AssocNames(ext).numbered \o DotJson,
   AssocNames(ext).plain \o <<"(","1",")">> \o DotJson}

AssocTitles(ext) == {<<>>, AssocNames(ext).plain}

\* the listings of a set of file names, in every order
Listings(S) ==
  {f \in [1..Cardinality(S) -> S] : \A i, j \in 1..Cardinality(S) : f[i] = f[j] => i = j}

\* dirFiles[dir] for a directory that holds the sidecar and other files
AssocListings(ext, jsonName) ==
  UNION {Listings(T \cup {jsonName}) :
           T \in {U \in SUBSET AssocPool(ext) : Cardinality(U) <= MaxSiblings}}

InitAssoc ==
  /\ dryRun = FALSE
  /\ fallbackFilename = TRUE
  /\ pc = "associate"
  /\ fsIdx = 1
  /\ pos = 1
  /\ \E ext \in mediaExtensions :
       \E jsonName \in AssocSidecars(ext) :
         \E title \in AssocTitles(ext) :
           \E files \in AssocListings(ext, jsonName) :
             /\ dirFiles = [d \in {"Photos"} |-> files]
             /\ last = [NoLast EXCEPT !.fpath = <<"Photos", jsonName>>,
                                      !.md.Title = title]
  /\ allMediaFiles = {}
  /\ claimedMedia = {}
  /\ todo = {}
  /\ result = EmptyResult
  /\ cancelled = FALSE
  /\ returned = [isNil |-> TRUE, result |-> EmptyResult, err |-> ""]
  /\ pinged = FALSE
  /\ failures = 0
  /\ treeStart = [Mappings |-> 0, NotFound |-> 0, OrphanMedia |-> 0]
  /\ filterIn = [assets |-> <<>>, targetTime |-> 0]
  /\ filterOut = [returned |-> FALSE, assets |-> <<>>]

\* processFS: mediaFile := m.findMediaFile(jsonBase, md.Title, dirFiles[dir])
CallFindMediaFile ==
  /\ pc = "associate"
  /\ last.kind = "none"
  /\ LET e == Sidecar(last.fpath[1], last.fpath[2], last.md.Title, FALSE, <<>>, "")
     IN  last' = [last EXCEPT !.kind = "associated",
                              !.mediaPath = <<e.dir, MediaFor(e)>>]
  /\ UNCHANGED <<filterIn, filterOut, dryRun, fallbackFilename, pc, fsIdx, pos,
                 dirFiles, allMediaFiles, claimedMedia, todo, result, cancelled,
                 returned, pinged, failures, treeStart>>

SpecAssoc == InitAssoc /\ [][CallFindMediaFile]_vars

----------------------------------------------------------------------------
(* Claims                                                                  *)

\* a step of the second walk that handled a sidecar
SidecarStep == pos' = pos + 1 /\ last'.kind = "sidecar"

\* C1: when the digest lookup of a sidecar returns at least one candidate, the
\* step appends one Mapping with method "hash" built from the first digest
\* candidate, matched and matched_by_hash grow by one, nothing else is
\* classified, and no name lookup is issued, with fallback on or off.
C1_HashMatch ==
  [][ (SidecarStep /\ Len(last'.lookups[1].assets) > 0) =>
        /\ last'.outcome = "Matched"
        /\ result'.Mappings =
             Append(result.Mappings,
                    [GoogleURL |-> last'.md.URL,
                     ImmichURL |-> ImmichURL(last'.lookups[1].assets[1].ID),
                     JSONFile |-> last'.fpath, Path |-> last'.mediaPath,
                     Hash |-> last'.hash, MatchMethod |-> "hash"])
        /\ result'.Stats.Matched = result.Stats.Matched + 1
        /\ result'.Stats.MatchedByHash = result.Stats.MatchedByHash + 1
        /\ result'.Stats.MatchedByFilename = result.Stats.MatchedByFilename
        /\ result'.NotFound = result.NotFound
        /\ ~last'.lookups[2].called /\ ~last'.lookups[3].called ]_vars

\* a sidecar was matched by digest, with two digest candidates and fallback on
C1_Witness ==
  /\ fallbackFilename
  /\ last.kind = "sidecar"
  /\ Len(last.lookups[1].assets) = 2
  /\ last.outcome = "Matched"
  /\ result.Stats.MatchedByHash > 0

\* C2: when the digest lookup of a sidecar yields no candidate: with fallback
\* off the step appends one NotFound entry (reference URL, sidecar path, media
\* path, digest) and issues no name lookup; with fallback on and a name lookup
\* that leaves a candidate it appends a Mapping with method
\* "filename+timestamp" and matched_by_filename grows by one.
C2_ZeroDigestCandidates ==
  [][ (SidecarStep /\ last'.lookups[1].called /\ Len(last'.lookups[1].assets) = 0) =>
        /\ ~fallbackFilename =>
             /\ last'.outcome = "NotFound"
             /\ result'.NotFound =
                  Append(result.NotFound,
                         [GoogleURL |-> last'.md.URL, JSONFile |-> last'.fpath,
                          Path |-> last'.mediaPath, Hash |-> last'.hash])
             /\ result'.Mappings = result.Mappings
             /\ result'.Stats.NotFoundInImmich = result.Stats.NotFoundInImmich + 1
             /\ ~last'.lookups[2].called /\ ~last'.lookups[3].called
        /\ (fallbackFilename /\ Len(last'.foundAssets) > 0) =>
             /\ last'.outcome = "Matched"
             /\ Len(result'.Mappings) = Len(result.Mappings) + 1
             /\ result'.Mappings[Len(result'.Mappings)].MatchMethod = "filename+timestamp"
             /\ result'.Mappings[Len(result'.Mappings)].JSONFile = last'.fpath
             /\ result'.Stats.MatchedByFilename = result.Stats.MatchedByFilename + 1
             /\ result'.Stats.MatchedByHash = result.Stats.MatchedByHash
             /\ result'.NotFound = result.NotFound ]_vars

\* a sidecar whose digest is unknown to the catalog was matched by name
C2_Witness ==
  /\ fallbackFilename
  /\ last.kind = "sidecar"
  /\ last.lookups[1].called /\ ~last.lookups[1].err
  /\ Len(last.lookups[1].assets) = 0
  /\ last.outcome = "Matched"
  /\ result.Stats.MatchedByFilename > 0
  /\ Len(result.NotFound) > 0

\* the timestamp the claim calls the best available one of a candidate: the
\* first present of local capture, file creation, EXIF original
C3_Fields(a) == <<a.LocalDateTime, a.FileCreatedAt, a.DateTimeOriginal>>

C3_Qualifies(a, ref) ==
  LET present == {i \in 1..3 : C3_Fields(a)[i] # ZeroTime}
  IN  /\ present # {}
      /\ LET first == CHOOSE i \in present : \A j \in present : i <= j
         IN  C3_Fields(a)[first] - ref \in -2..2

\* C3: filterByTimestamp returns exactly the candidates, in input order, whose
\* best available timestamp is within 2 seconds of the reference; candidates
\* with no timestamp are dropped; the result is empty when none qualifies.
C3_FilterExact ==
  filterOut.returned =>
    filterOut.assets =
      SelectSeq(filterIn.assets, LAMBDA a : C3_Qualifies(a, filterIn.targetTime))

\* of a 5s-off and a 1s-off candidate only the 1s-off one survives
C3_Witness ==
  /\ filterOut.returned
  /\ filterIn.targetTime = 10
  /\ filterIn.assets = <<P5sOff, P1sOff>>
  /\ filterOut.assets = <<P1sOff>>

\* the entries the tree being processed has added to the result lists
TreeMappings == SubSeq(result.Mappings, treeStart.Mappings + 1, Len(result.Mappings))
TreeNotFound == SubSeq(result.NotFound, treeStart.NotFound + 1, Len(result.NotFound))
TreeOrphans ==
  SubSeq(result.OrphanMedia, treeStart.OrphanMedia + 1, Len(result.OrphanMedia))

\* the sidecar outcomes of the tree that carry a media path
TreeOutcomes ==
  [i \in 1..Len(TreeMappings) |->
     [JSONFile |-> TreeMappings[i].JSONFile, Path |-> TreeMappings[i].Path]]
  \o
  [i \in 1..Len(TreeNotFound) |->
     [JSONFile |-> TreeNotFound[i].JSONFile, Path |-> TreeNotFound[i].Path]]

\* C4: no media path of the tree is both in an orphan record and the media
\* path of a Mapping or NotFound entry of that tree, and no path claimed by a
\* sidecar (hash error and dry-run included) is in the tree's orphan records.
C4_NoClaimedOrphan ==
  \A i \in 1..Len(TreeOrphans) :
    /\ TreeOrphans[i].Path \notin claimedMedia
    /\ \A j \in 1..Len(TreeOutcomes) : TreeOrphans[i].Path # TreeOutcomes[j].Path

\* the second tree reports Photos/a.jpg as orphan, the first tree mapped it, and
\* the second tree has claimed files, Mappings and NotFound entries of its own
C4_Witness ==
  /\ fsIdx = 2
  /\ pc = "orphans"
  /\ claimedMedia # {}
  /\ Len(TreeMappings) > 0
  /\ Len(TreeNotFound) > 0
  /\ \E i \in 1..Len(TreeOrphans) :
       \E j \in 1..treeStart.Mappings :
         TreeOrphans[i].Path = result.Mappings[j].Path

\* C5 as stated: no two Mapping/NotFound entries of one tree share a media
\* path (the first sidecar to claim a file wins).
C5_Original ==
  \A i, j \in 1..Len(TreeOutcomes) :
    i # j => TreeOutcomes[i].Path # TreeOutcomes[j].Path

\* a sibling matches the sidecar by an exact rule of the associator
C5_HasExactSibling(fpath, title) ==
  LET files == dirFiles[fpath[1]]
      base  == TrimSuffix(fpath[2], DotJson)
      cut   == LastIndex(base, "(")
  IN  \E k \in 1..Len(files) :
        \/ files[k] = base
        \/ title # <<>> /\ files[k] = title
        \/ cut > 0 /\ files[k] = SubSeq(base, 1, cut)

\* C5 as amended: a media file can be claimed by several sidecars. A sidecar
\* is NoMediaFile only when no sibling matches it, claimed or not; a classified
\* sidecar's entry carries its own path and the media path found for it; no two
\* Mapping/NotFound entries of one tree share a sidecar path.
C5_Amended ==
  /\ \A i, j \in 1..Len(TreeOutcomes) :
       i # j => TreeOutcomes[i].JSONFile # TreeOutcomes[j].JSONFile
  /\ (last.kind = "sidecar" /\ last.outcome = "NoMediaFile") =>
       ~C5_HasExactSibling(last.fpath, last.md.Title)
  /\ (last.kind = "sidecar" /\ last.outcome \in {"Matched", "NotFound"}) =>
       /\ TreeOutcomes # <<>>
       /\ \E i \in 1..Len(TreeOutcomes) :
            /\ TreeOutcomes[i].JSONFile = last.fpath
            /\ TreeOutcomes[i].Path = last.mediaPath
       /\ \E k \in 1..Len(dirFiles[last.fpath[1]]) :
            dirFiles[last.fpath[1]][k] = last.mediaPath[2]

\* two Mappings of one tree carry the same media path
C5_Witness ==
  \E i, j \in 1..Len(TreeMappings) :
    /\ i # j
    /\ TreeMappings[i].Path = TreeMappings[j].Path
    /\ TreeMappings[i].JSONFile # TreeMappings[j].JSONFile

\* C6: in a run that is not a dry run, after every processed sidecar and at
\* the end, total_google_urls = matched + not_found_in_immich + no_media_file
\* + hash_errors, and a sidecar that is an asset record with a reference URL
\* ends in exactly one of Matched, NotFound, NoMediaFile, HashError.
C6_OneOutcome ==
  ~dryRun =>
    /\ result.Stats.TotalGoogleURLs =
         result.Stats.Matched + result.Stats.NotFoundInImmich
         + result.Stats.NoMediaFile + result.Stats.HashErrors
    /\ (last.kind = "sidecar" /\ last.outcome # "Unreadable"
        /\ IsAsset(last.md) /\ HasURL(last.md)) =>
         last.outcome \in {"Matched", "NotFound", "NoMediaFile", "HashError"}

\* a run without cancellation returned a result with all four outcomes in it
C6_Witness ==
  /\ pc = "done"
  /\ ~returned.isNil
  /\ ~dryRun
  /\ ~cancelled
  /\ returned.result.Stats.Matched > 0
  /\ returned.result.Stats.NotFoundInImmich > 0
  /\ returned.result.Stats.NoMediaFile > 0
  /\ returned.result.Stats.HashErrors > 0

\* the number of .json files in all the trees
RECURSIVE JsonCount(_)
JsonCount(entries) ==
  IF entries = <<>> THEN 0
  ELSE (IF ~Head(entries).isDir /\ IsJson(Head(entries)) THEN 1 ELSE 0)
       + JsonCount(Tail(entries))

NumJsonFiles == JsonCount(Tree1) + JsonCount(Tree2)

\* C7 as stated: unless cancelled or refused at the handshake, Run returns a
\* result, not an error, with every sidecar of every tree processed, whatever
\* fails in one sidecar or one tree (a failing tree walk included).
C7_Original ==
  (pc = "done" /\ ~cancelled /\ returned.err # "failed to connect to Immich server") =>
    /\ ~returned.isNil
    /\ returned.err = ""
    /\ returned.result.Stats.TotalJSONFiles = NumJsonFiles

\* C7 as amended: a failure confined to one sidecar (unreadable, unparsable,
\* fingerprint failure, catalog query failure) never ends the run: the walk
\* goes on, and a returned result has every sidecar of every tree counted.
\* Run returns an error and no result only for a cancellation, a refused
\* handshake, or a failure while walking a tree.
C7_Amended ==
  /\ (pc = "done" /\ returned.isNil) =>
       returned.err \in {"context canceled", "failed to connect to Immich server",
                         "failed to walk filesystem", "walk error"}
  /\ (pc = "done" /\ ~returned.isNil) =>
       /\ returned.err = ""
       /\ returned.result = result
       /\ returned.result.Stats.TotalJSONFiles = NumJsonFiles
  /\ last.kind = "sidecar" => pc = "walk"

\* a run in which a file could not be fingerprinted returned a result
C7_Witness ==
  /\ pc = "done"
  /\ ~returned.isNil
  /\ failures > 0
  /\ returned.result.Stats.HashErrors > 0
  /\ returned.result.Stats.Matched > 0

\* C8 as stated: after a cancellation seen in the sidecar pass, the caller of
\* Run receives the classifications made before it.
C8_Original ==
  (pc = "done" /\ returned.err = "context canceled"
   /\ Len(result.Mappings) + Len(result.NotFound) > 0) =>
    /\ ~returned.isNil
    /\ returned.result = result

\* C8 as amended: when the sidecar pass sees the cancellation, the result
\* object keeps the classifications made so far and the remaining entries are
\* not classified, but Run returns nil with the cancellation error: the caller
\* receives no result.
C8_Amended ==
  [][ (pc = "walk" /\ cancelled /\ pos <= Len(Trees[fsIdx])) =>
        /\ pc' = "done"
        /\ result' = result
        /\ pos' = pos
        /\ returned'.isNil
        /\ returned'.err = "context canceled" ]_vars

\* the walk was cancelled with Mappings and NotFound entries already made and
\* entries left to visit
C8_Witness ==
  /\ pc = "done"
  /\ returned.isNil
  /\ returned.err = "context canceled"
  /\ Len(result.Mappings) > 0
  /\ Len(result.NotFound) > 0
  /\ pos <= Len(Trees[fsIdx])

\* C9 as stated: no query batch (digest or name lookup, for a sidecar or an
\* orphan) is started once the cancellation signal has been raised, and a run
\* that worked on an orphan after the signal returns the cancellation error.
C9_Original ==
  /\ \A k \in 1..3 :
       \A i \in 1..Len(last.lookups[k].queries) : ~last.lookups[k].queries[i].ctxDone
  /\ (pc = "done" /\ last.kind = "orphan" /\ last.afterCancel) =>
       returned.err = "context canceled"

\* the names processFS searches the catalog for
C10_SearchName(l) == IF l.md.Title = <<>> THEN l.mediaPath[2] ELSE l.md.Title
C10_BaseName(l) == TrimSuffix(C10_SearchName(l), Ext(C10_SearchName(l)))

\* C10: a failed lookup counts as a lookup without candidates. After a failed
\* digest lookup the sidecar is NotFound with fallback off and goes on to the
\* name lookups with fallback on; after a failed name lookup the base name is
\* tried when it differs; a sidecar left without candidates is NotFound; and
\* the walk goes on to the next entry.
C10_ErrorAsEmpty ==
  [][ (SidecarStep /\ \E k \in 1..3 : last'.lookups[k].err) =>
        LET l == last'
            notFound ==
              /\ l.outcome = "NotFound"
              /\ result'.NotFound =
                   Append(result.NotFound,
                          [GoogleURL |-> l.md.URL, JSONFile |-> l.fpath,
                           Path |-> l.mediaPath, Hash |-> l.hash])
              /\ result'.Stats.NotFoundInImmich = result.Stats.NotFoundInImmich + 1
              /\ result'.Mappings = result.Mappings
              /\ result'.Stats.Matched = result.Stats.Matched
        IN  /\ pc' = pc /\ pos' = pos + 1
            /\ \A k \in 1..3 : l.lookups[k].err => l.lookups[k].assets = <<>>
            /\ (l.lookups[1].err /\ ~fallbackFilename) =>
                 /\ ~l.lookups[2].called /\ ~l.lookups[3].called
                 /\ notFound
            /\ (l.lookups[1].err /\ fallbackFilename) => l.lookups[2].called
            /\ l.lookups[2].err =>
                 (l.lookups[3].called <=> C10_BaseName(l) # C10_SearchName(l))
            /\ (l.lookups[2].err /\ ~l.lookups[3].called) => notFound
            /\ l.lookups[3].err => notFound
            /\ Len(l.foundAssets) = 0 => notFound
            /\ Len(l.foundAssets) > 0 =>
                 /\ l.outcome = "Matched"
                 /\ Len(result'.Mappings) = Len(result.Mappings) + 1
                 /\ result'.Mappings[Len(result'.Mappings)].MatchMethod
                      = "filename+timestamp"
                 /\ result'.NotFound = result.NotFound ]_vars

\* the digest lookup of a sidecar failed, the name lookup matched it
C10_Witness ==
  /\ fallbackFilename
  /\ last.kind = "sidecar"
  /\ last.lookups[1].err
  /\ last.cancelAt = 0
  /\ last.lookups[2].called
  /\ last.outcome = "Matched"
  /\ pc = "walk"

\* what the catalog holds for an issued query
C11_Held(q) ==
  SelectSeq(Catalog[q.visibility],
            LAMBDA a : IF q.field = "checksum" THEN a.Checksum = q.value
                       ELSE a.OriginalFileName = q.value)

\* C11: every digest or name lookup, for a sidecar or an orphan, queries the
\* timeline first and the archive if and only if the timeline query succeeded
\* with zero results; it issues at most two queries, both for the same key; it
\* returns the timeline result when that is non-empty, otherwise the archive
\* result, and an error without candidates when its last query failed.
C11_TwoScopeOrder ==
  \A k \in 1..3 :
    LET l == last.lookups[k]
        q == l.queries
    IN  l.called =>
          /\ Len(q) \in 1..2
          /\ q[1].visibility = "timeline"
          /\ Len(q) = 2 <=> (~q[1].err /\ q[1].assets = <<>>)
          /\ Len(q) = 2 =>
               /\ q[2].visibility = "archive"
               /\ q[2].field = q[1].field /\ q[2].value = q[1].value
          /\ \A i \in 1..Len(q) :
               IF q[i].err THEN q[i].assets = <<>> ELSE q[i].assets = C11_Held(q[i])
          /\ l.err <=> q[Len(q)].err
          /\ l.assets = IF q[1].assets # <<>> THEN q[1].assets
                        ELSE IF Len(q) = 2 THEN q[2].assets
                        ELSE <<>>

\* a sidecar whose name lookup found nothing in either scope and whose base-name
\* lookup found nothing in the timeline and a candidate in the archive
C11_Witness ==
  /\ last.kind = "sidecar"
  /\ Len(last.lookups[2].queries) = 2
  /\ last.lookups[2].assets = <<>>
  /\ Len(last.lookups[3].queries) = 2
  /\ last.lookups[3].queries[1].assets = <<>>
  /\ last.lookups[3].assets # <<>>

\* C12: in dry-run mode no remote query is ever issued (no handshake, no digest
\* or name lookup, for a sidecar or an orphan), the Mappings and NotFound lists
\* stay empty and matched, matched_by_hash, matched_by_filename and
\* not_found_in_immich stay zero, while a sidecar that reaches the dry-run exit
\* has its media file associated, claimed and fingerprinted, NoMediaFile and
\* HashError are counted, and unclaimed media are recorded as orphans without
\* catalog fields.
C12_DryRunNoQueries ==
  dryRun =>
    /\ ~pinged
    /\ \A k \in 1..3 : ~last.lookups[k].called /\ last.lookups[k].queries = <<>>
    /\ result.Mappings = <<>>
    /\ result.NotFound = <<>>
    /\ result.Stats.Matched = 0
    /\ result.Stats.MatchedByHash = 0
    /\ result.Stats.MatchedByFilename = 0
    /\ result.Stats.NotFoundInImmich = 0
    /\ (last.kind = "sidecar" /\ IsAsset(last.md) /\ HasURL(last.md)
        /\ last.outcome # "Unreadable") =>
         /\ last.outcome \in {"NoMediaFile", "HashError", "DryRun"}
         /\ last.outcome \in {"HashError", "DryRun"} =>
              /\ last.mediaPath \in claimedMedia
              /\ last.mediaPath \in allMediaFiles
                   \/ ~isMediaFile(last.mediaPath[2])
         /\ last.outcome = "DryRun" => last.hash # ""
    /\ result.Stats.OrphanMedia = Len(result.OrphanMedia)
    /\ \A i \in 1..Len(result.OrphanMedia) :
         /\ result.OrphanMedia[i].Hash = ""
         /\ result.OrphanMedia[i].ImmichURL = <<>>
    /\ (pc = "orphans" /\ Unclaimed(todo, claimedMedia) = {}) =>
         {TreeOrphans[i].Path : i \in 1..Len(TreeOrphans)} = allMediaFiles \ claimedMedia

\* a dry run returned with a NoMediaFile, a hash error, claimed media and orphans
C12_Witness ==
  /\ dryRun
  /\ pc = "done"
  /\ ~returned.isNil
  /\ returned.result.Stats.TotalGoogleURLs > 2
  /\ returned.result.Stats.NoMediaFile > 0
  /\ returned.result.Stats.HashErrors > 0
  /\ returned.result.Stats.OrphanMedia > 0
  /\ claimedMedia # {}

\* the listing, the sidecar name without its final ".json", the title and the
\* result of the call of findMediaFile
C13_Files == dirFiles[last.fpath[1]]
C13_Base ==
  LET json == last.fpath[2]
      n    == Len(json)
  IN  IF n >= 5 /\ SubSeq(json, n - 4, n) = <<".","j","s","o","n">>
      THEN SubSeq(json, 1, n - 5) ELSE json
C13_Title == last.md.Title
C13_Out == last.mediaPath[2]

C13_Has(name) == \E i \in 1..Len(C13_Files) : C13_Files[i] = name

\* the positions of the siblings equal to the base name up to letter case
C13_Folds == {i \in 1..Len(C13_Files) : ToLower(C13_Files[i]) = ToLower(C13_Base)}

\* rule 3 applies: the base name ends in an extension of the associator's list
C13_Rule3 ==
  /\ C13_Folds # {}
  /\ \E k \in 1..Len(mediaExts) :
       LET ext == mediaExts[k]
           low == ToLower(C13_Base)
       IN  Len(low) >= Len(ext) /\ SubSeq(low, Len(low) - Len(ext) + 1, Len(low)) = ext

\* the base name up to its last "(", when that is not its first character
C13_Opens == {i \in 1..Len(C13_Base) : C13_Base[i] = "("}
C13_Stripped ==
  LET cut == CHOOSE i \in C13_Opens : \A j \in C13_Opens : j <= i
  IN  SubSeq(C13_Base, 1, cut - 1)
C13_Rule4 == C13_Opens # {} /\ C13_Stripped # <<>> /\ C13_Has(C13_Stripped)

\* C13: findMediaFile returns the result of the first rule that matches, in the
\* order: a sibling equal to the sidecar name minus its final ".json"; a sibling
\* equal to the title; the first sibling equal to the base name up to case; the
\* sibling equal to the base name cut at its last "("; none when no rule
\* matches. For photo(1).ext.json with siblings photo(1).ext and photo.ext the
\* result is photo(1).ext, in every order of the listing.
C13_FirstRuleWins ==
  last.kind = "associated" =>
    /\ C13_Out =
         IF C13_Has(C13_Base) THEN C13_Base
         ELSE IF C13_Title # <<>> /\ C13_Has(C13_Title) THEN C13_Title
         ELSE IF C13_Rule3
              THEN C13_Files[CHOOSE i \in C13_Folds : \A j \in C13_Folds : i <= j]
         ELSE IF C13_Rule4 THEN C13_Stripped
         ELSE <<>>
    /\ \A ext \in mediaExtensions :
         (/\ last.fpath[2] = AssocNames(ext).numbered \o DotJson
          /\ C13_Has(AssocNames(ext).numbered)
          /\ C13_Has(AssocNames(ext).plain)) =>
           C13_Out = AssocNames(ext).numbered

\* p(1).jpg.json with title p.jpg in the listing p(1).jpg, p(1).jpg.json, p.jpg
\* is associated with p(1).jpg
C13_Witness ==
  /\ last.kind = "associated"
  /\ last.fpath[2] = AssocNames(JPG).numbered \o DotJson
  /\ last.md.Title = AssocNames(JPG).plain
  /\ C13_Files = <<AssocNames(JPG).numbered, AssocNames(JPG).numbered \o DotJson,
                   AssocNames(JPG).plain>>
  /\ C13_Out = AssocNames(JPG).numbered

\* C14 as stated: for every extension isMediaFile recognises, when rules 1 and
\* 2 do not match, a sibling equal to the suffix-stripped sidecar name up to
\* letter case is returned as the media file.
C14_Original ==
  ( /\ last.kind = "associated"
    /\ ~C13_Has(C13_Base)
    /\ ~(C13_Title # <<>> /\ C13_Has(C13_Title))
    /\ isMediaFile(C13_Base)
    /\ C13_Folds # {} ) =>
    C13_Out \in {C13_Files[i] : i \in C13_Folds}

\* the last step matched a sidecar by name, not by digest
C15_MatchedByName ==
  /\ last.kind = "sidecar"
  /\ last.outcome = "Matched"
  /\ last.lookups[1].assets = <<>>
  /\ result.Mappings # <<>>
  /\ result.Mappings[Len(result.Mappings)].MatchMethod = "filename+timestamp"

\* the capture time of the sidecar of the last step, in epoch seconds
C15_CaptureTime == GoogTime(last.md.PhotoTakenTime)

\* C15 as stated: every Mapping with method "filename+timestamp" refers to a
\* catalog asset whose timestamp is within 2 seconds of the sidecar's capture
\* time, whatever the number of candidates of the name lookup (one included).
C15_Original ==
  C15_MatchedByName =>
    /\ result.Mappings[Len(result.Mappings)].ImmichURL = ImmichURL(last.foundAssets[1].ID)
    /\ C15_CaptureTime # ZeroTime
    /\ C3_Qualifies(last.foundAssets[1], C15_CaptureTime)

\* the candidates the name lookups of the last step handed to the filter
C16_Named ==
  IF last.lookups[3].called THEN last.lookups[3].assets ELSE last.lookups[2].assets

\* a candidate of the name lookup is within 2 seconds of a usable capture time
C16_Corroborated ==
  /\ C15_CaptureTime # ZeroTime
  /\ \E i \in 1..Len(C16_Named) : C3_Qualifies(C16_Named[i], C15_CaptureTime)

\* C16 as stated: when the name lookup of a sidecar yields more than one
\* candidate, the sidecar is Matched only if a candidate passed the 2-second
\* filter; with no candidate within tolerance, or a capture timestamp that
\* gives no usable reference time ("0", non-numeric), it is NotFound.
C16_Original ==
  (last.kind = "sidecar" /\ last.lookups[2].called /\ Len(C16_Named) > 1) =>
    /\ last.outcome \in {"Matched", "NotFound"}
    /\ last.outcome = "Matched" <=> C16_Corroborated

\* the sidecars of the tree being processed that the associator links to a
\* media path
C17_Associated(mediaPath) ==
  {i \in 1..Len(Trees[fsIdx]) :
     LET e == Trees[fsIdx][i]
     IN  /\ ~e.isDir /\ IsJson(e) /\ e.valid
         /\ e.dir = mediaPath[1]
         /\ findMediaFile(e.name, e.md.Title, dirFiles[e.dir]) = mediaPath[2]}

\* C17 as stated: a media file is reported as orphan only if no sidecar of its
\* tree is associated with it by the associator rules, a sidecar without
\* reference URL included; a media file without any such sidecar is in the
\* orphan list exactly once and in no Mapping or NotFound entry. (Runs in which
\* nothing failed and no signal arrived.)
C17_Original ==
  (pc = "orphans" /\ failures = 0 /\ ~cancelled) =>
    /\ \A i \in 1..Len(TreeOrphans) : C17_Associated(TreeOrphans[i].Path) = {}
    /\ Unclaimed(todo, claimedMedia) = {} =>
         \A mediaPath \in allMediaFiles :
           C17_Associated(mediaPath) = {} =>
             /\ Cardinality({i \in 1..Len(TreeOrphans) :
                               TreeOrphans[i].Path = mediaPath}) = 1
             /\ \A j \in 1..Len(TreeOutcomes) : TreeOutcomes[j].Path # mediaPath

\* the statistics agree with the result lists
C18_Consistent(r) ==
  /\ r.Stats.Matched = r.Stats.MatchedByHash + r.Stats.MatchedByFilename
  /\ r.Stats.Matched = Len(r.Mappings)
  /\ r.Stats.MatchedByHash =
       Cardinality({i \in 1..Len(r.Mappings) : r.Mappings[i].MatchMethod = "hash"})
  /\ r.Stats.NotFoundInImmich = Len(r.NotFound)
  /\ r.Stats.OrphanMedia = Len(r.OrphanMedia)
  /\ r.Stats.TotalGoogleURLs <= r.Stats.TotalJSONFiles

\* no counter decreases and no list loses or changes an entry
C18_Grows(r, s) ==
  /\ \A c \in DOMAIN r.Stats : r.Stats[c] <= s.Stats[c]
  /\ Len(r.Mappings) <= Len(s.Mappings)
  /\ SubSeq(s.Mappings, 1, Len(r.Mappings)) = r.Mappings
  /\ Len(r.NotFound) <= Len(s.NotFound)
  /\ SubSeq(s.NotFound, 1, Len(r.NotFound)) = r.NotFound
  /\ Len(r.OrphanMedia) <= Len(s.OrphanMedia)
  /\ SubSeq(s.OrphanMedia, 1, Len(r.OrphanMedia)) = r.OrphanMedia

\* C18: after every processed sidecar and every processed orphan, across all
\* trees, matched = matched_by_hash + matched_by_filename = number of Mappings,
\* not_found_in_immich = number of NotFound entries, orphan_media = number of
\* orphan records, total_google_urls <= total_json_files, and no counter ever
\* decreases.
C18_StatsAgree ==
  [][ /\ C18_Consistent(result)
      /\ C18_Consistent(result')
      /\ C18_Grows(result, result') ]_vars

\* the second tree is done and the result holds matches by digest and by name,
\* NotFound entries and orphans of both trees
C18_Witness ==
  /\ pc = "done"
  /\ fsIdx = 2
  /\ ~returned.isNil
  /\ returned.result.Stats.MatchedByHash > 1
  /\ returned.result.Stats.MatchedByFilename > 1
  /\ returned.result.Stats.NotFoundInImmich > 1
  /\ returned.result.Stats.OrphanMedia > treeStart.OrphanMedia
  /\ treeStart.OrphanMedia > 0
  /\ treeStart.Mappings > 0

====
